---- MODULE Spec2Model ----
(***************************************************************************)
(* Model of scrape_wb.py: WildberriesScraper walks the category forest     *)
(* returned by the main-menu endpoint with one asyncio task per category,  *)
(* fetches the filter endpoint for leaf categories under a semaphore and   *)
(* writes rows through ExcelSaver.                                         *)
(*                                                                         *)
(* One action is one uninterrupted run of a coroutine between two points   *)
(* where it really suspends (a network await, a semaphore wait, a gather). *)
(***************************************************************************)
EXTENDS Integers, Sequences, FiniteSets, Bags, TLC

(***************************************************************************)
(* Bounds of the model.                                                    *)
(***************************************************************************)
\* largest number of categories in the main-menu response
MaxNodes == 3
\* permits of the semaphore (asyncio.Semaphore(30) in the program; the
\* model uses a small capacity so that branches really have to wait)
SemaphoreCapacity == 1

(***************************************************************************)
(* Python values.                                                          *)
(***************************************************************************)
\* None where a str is expected (Category.shard, Category.query)
None == "<None>"
\* None where an int is expected (parent_id of a root category)
NoneId == -1
\* the literal group name compared in _fetch_items
CATEGORY_GROUP == "Kategoriya"

\* truth value of an Optional[str]: None and "" are falsy
Truthy(s) == s # None /\ s # ""

\* `parent or 0` in ExcelSaver.write: None and 0 both give 0
ParentOr0(p) == IF p = NoneId \/ p = 0 THEN 0 ELSE p

(***************************************************************************)
(* Inputs: the forest of the main-menu response.                           *)
(* A forest is a sequence of categories; category i carries the index of   *)
(* its parent in the sequence (0 for a top-level category), so childs of i *)
(* are the categories whose parent is i, in index order.                   *)
(***************************************************************************)
NameList == <<"A", "B", "C", "D">>
NameOf(i) == NameList[((i - 1) % Len(NameList)) + 1]

\* (shard, query) pairs tried for every category: both populated, an empty
\* shard, no query
Lookups == { <<"s1", "q1">>, <<"", "q1">>, <<"s1", None>> }

\* ids and names repeat with period 2 and start at id 0: forests of three
\* categories and more have categories with equal ids and equal names
IdOf(i) == (i - 1) % 2
LabelOf(i) == NameOf(((i - 1) % 2) + 1)

ParentArrays(n) == { p \in [1..n -> 0..n] : \A i \in 1..n : p[i] < i }

Category(i, look, par) ==
    [id |-> IdOf(i), name |-> LabelOf(i),
     shard |-> look[1], query |-> look[2], parent |-> par]

Childs(f, n) == { c \in 1..Len(f) : f[c].parent = n }

(***************************************************************************)
(* Inputs: bodies of the filter endpoint.                                  *)
(* JSON values are tagged records: t = "absent" (key missing), "null",     *)
(* "obj" / "list" (with the content).                                      *)
(***************************************************************************)
Absent == [t |-> "absent"]
Null == [t |-> "null"]
Item(id, name) == [t |-> "obj", id |-> id, name |-> name]
\* an item object without "id" and "name"
EmptyItem == [t |-> "obj", id |-> NoneId, name |-> None]
List(s) == [t |-> "list", elems |-> s]
Group(name, items) == [t |-> "obj", name |-> name, items |-> items]
Data(filters) == [t |-> "obj", filters |-> filters]

\* the GET (or resp.json()) raises
BodyTransportFail == [raises |-> TRUE, data |-> Absent]
\* {"data": {"filters": [{"name": "Other", "items": [{"id": 20, "name": "X"}]},
\*                       {"name": <category>, "items": [{"id": 10, "name": "F1"}, {}]}]}}
BodyFacets ==
    [raises |-> FALSE,
     data |-> Data(List(<< Group("Other", List(<< Item(20, "X") >>)),
                           Group(CATEGORY_GROUP, List(<< Item(10, "F1"), EmptyItem >>)) >>))]
\* {} : no "data" key
BodyNoData == [raises |-> FALSE, data |-> Absent]
\* {"data": {"filters": [{"name": <category>, "items": [{"id": 11, "name": "F2"}, null]}]}}
BodyBadItem ==
    [raises |-> FALSE,
     data |-> Data(List(<< Group(CATEGORY_GROUP, List(<< Item(11, "F2"), Null >>)) >>))]

\* the answers tried for every category the endpoint is asked for
Bodies == { BodyTransportFail, BodyFacets, BodyBadItem }

\* {"data": null}
BodyNullData == [raises |-> FALSE, data |-> Null]
\* {"data": {}} : no "filters" key
BodyNoFilters == [raises |-> FALSE, data |-> Data(Absent)]
\* {"data": {"filters": null}}
BodyNullFilters == [raises |-> FALSE, data |-> Data(Null)]
\* {"data": {"filters": [{"name": <category>}]}} : no "items" key
BodyNoItems ==
    [raises |-> FALSE, data |-> Data(List(<< Group(CATEGORY_GROUP, Absent) >>))]
\* {"data": {"filters": [{"name": <category>, "items": null},
\*                       {"name": "Other", "items": [{"id": 20, "name": "X"}]}]}}
BodyItemsNotList ==
    [raises |-> FALSE,
     data |-> Data(List(<< Group(CATEGORY_GROUP, Null),
                           Group("Other", List(<< Item(20, "X") >>)) >>))]
\* {"data": {"filters": [{"name": <category>, "items": [{"id": 12, "name": "F3"}]},
\*                       {"name": "Other", "items": [{"id": 21, "name": "Y"}]},
\*                       {"items": [{"id": 22, "name": "Z"}]},
\*                       {"name": <category>, "items": [{"id": 13, "name": "F4"}]}]}}
BodyCategoryFirst ==
    [raises |-> FALSE,
     data |-> Data(List(<< Group(CATEGORY_GROUP, List(<< Item(12, "F3") >>)),
                           Group("Other", List(<< Item(21, "Y") >>)),
                           Group(None, List(<< Item(22, "Z") >>)),
                           Group(CATEGORY_GROUP, List(<< Item(13, "F4") >>)) >>))]

\* the answers tried where the processing of one response is looked at
AllBodies ==
    Bodies \cup { BodyNoData, BodyNullData, BodyNoFilters, BodyNullFilters,
                  BodyNoItems, BodyItemsNotList, BodyCategoryFirst }

\* HTTP status codes of the responses: httpx returns a response for any of
\* them, and the program never reads resp.status_code
Statuses == { 200, 503 }

\* outcomes of the main-menu request
RootOutcomes == { "ok", "transport_fail", "invalid_item" }

(***************************************************************************)
(* _fetch_items, lines 130-141: what the loop over the response writes.    *)
(* The result is the sequence of (id, name) pairs passed to excel.write,   *)
(* in order, and whether an exception ended the loop.  Rows written before *)
(* the exception stay written.                                             *)
(***************************************************************************)
Facet(item) ==
    [id |-> IF item.id = NoneId THEN 0 ELSE item.id,
     name |-> IF item.name = None THEN "Unnamed" ELSE item.name]

RECURSIVE WalkItems(_)
\* for item in group["items"]: item.get(...) raises on a non-object
WalkItems(items) ==
    IF items = <<>> THEN [out |-> <<>>, raised |-> FALSE]
    ELSE IF Head(items).t # "obj" THEN [out |-> <<>>, raised |-> TRUE]
    ELSE LET r == WalkItems(Tail(items))
         IN [out |-> <<Facet(Head(items))>> \o r.out, raised |-> r.raised]

\* variant: every group with a list of items is taken
IsCategoryGroupAnyName(group) == group.items.t = "list"

\* group.get("name") == <category> and isinstance(group.get("items"), list)
IsCategoryGroup(group) == group.name = CATEGORY_GROUP /\ group.items.t = "list"

RECURSIVE WalkGroups(_)
\* for group in raw_filters: group.get(...) raises on a non-object
WalkGroups(groups) ==
    IF groups = <<>> THEN [out |-> <<>>, raised |-> FALSE]
    ELSE IF Head(groups).t # "obj" THEN [out |-> <<>>, raised |-> TRUE]
    ELSE IF IsCategoryGroup(Head(groups))
         THEN LET i == WalkItems(Head(groups).items.elems)
                  r == WalkGroups(Tail(groups))
              IN IF i.raised THEN i
                 ELSE [out |-> i.out \o r.out, raised |-> r.raised]
         ELSE WalkGroups(Tail(groups))

\* resp = await client.get(url); data = resp.json().get("data", {});
\* raw_filters = data.get("filters", []); the loop
FetchItemsBody(body) ==
    IF body.raises THEN [out |-> <<>>, raised |-> TRUE]
    ELSE IF body.data.t = "absent" THEN [out |-> <<>>, raised |-> FALSE]
    ELSE IF body.data.t # "obj" THEN [out |-> <<>>, raised |-> TRUE]
    ELSE IF body.data.filters.t = "absent" THEN [out |-> <<>>, raised |-> FALSE]
    ELSE IF body.data.filters.t # "list" THEN [out |-> <<>>, raised |-> TRUE]
    ELSE WalkGroups(body.data.filters.elems)

(***************************************************************************)
(* safe_api_call: the wrapper catches every Exception of the wrapped       *)
(* coroutine, prints one "Error in <func>" line and returns None.          *)
(***************************************************************************)
\* variant: the wrapper lets the exception through
safe_api_call_reraise(raised) ==
    [propagates |-> raised, printed |-> 0]

\* variant: the wrapper swallows the exception without printing
safe_api_call_silent(raised) ==
    [propagates |-> FALSE, printed |-> 0]

safe_api_call(raised) ==
    [propagates |-> FALSE, printed |-> IF raised THEN 1 ELSE 0]

(***************************************************************************)
(* ExcelSaver.                                                             *)
(***************************************************************************)
HeaderRow == [id |-> "ID", name |-> "Name", depth |-> "Depth", parent |-> "Parent"]

\* variant: the sheet is created anew, with its header row, on every use
get_sheet_anew(sh, name) ==
    [x \in DOMAIN sh \cup {name} |-> IF x = name THEN <<HeaderRow>> ELSE sh[x]]

\* get_sheet: a sheet is created, with its header row, on first use of a name
get_sheet(sh, name) ==
    IF name \in DOMAIN sh THEN sh
    ELSE [x \in DOMAIN sh \cup {name} |-> IF x = name THEN <<HeaderRow>> ELSE sh[x]]

\* write: append [item_id, name, depth, parent or 0] to the sheet of sheet_name
ExcelWrite(sh, sheet_name, item_id, name, depth, parent) ==
    LET s == get_sheet(sh, sheet_name)
    IN [s EXCEPT ![sheet_name] =
            Append(@, [id |-> item_id, name |-> name, depth |-> depth,
                       parent |-> ParentOr0(parent)])]

(***************************************************************************)
(* State.                                                                  *)
(***************************************************************************)
VARIABLES
    forest,     \* the categories of the main-menu response (input)
    resp,       \* resp[n]: what the filter endpoint answers for category n (input)
    rootResp,   \* outcome of the main-menu request (input)
    status,     \* status[0]: HTTP status of the main-menu response, status[n]:
                \* of the filter response for category n (input)
    mainpc,     \* where scrape() is
    pc,         \* pc[n]: where the _recurse task of category n is
    args,       \* args[n]: (depth, parent_id, sheet_name) of that _recurse call
    sem,        \* free permits of self.semaphore
    holding,    \* categories whose _fetch_items is inside `async with self.semaphore`
    fetches,    \* fetches[n]: number of GETs issued to the filter endpoint for n
    calls,      \* calls[name]: the excel.write calls made for sheet name so far,
                \* in order, each with its call site (one per data row of sheets)
    sheets,     \* ExcelSaver.sheets: sheet name -> rows
    saved,      \* ExcelSaver.save has run
    closed,     \* client.aclose has run
    printed     \* "Error in <func>" lines printed by safe_api_call, per func

vars == <<forest, resp, rootResp, status, mainpc, pc, args, sem, holding, fetches,
          calls, sheets, saved, closed, printed>>

inputs == <<forest, resp, rootResp, status>>

Nodes == 1..Len(forest)

NoArgs == [depth |-> 0, parent_id |-> NoneId, sheet_name |-> None]

\* variant: `elif cat.shard or cat.query`
recurse_branch_or(cat, childs) ==
    IF childs # {} THEN "gather"
    ELSE IF Truthy(cat.shard) \/ Truthy(cat.query) THEN "fetch_items"
    ELSE "return"

\* `if cat.childs: ... elif cat.shard and cat.query: ... ` of _recurse
recurse_branch(cat, childs) ==
    IF childs # {} THEN "gather"
    ELSE IF Truthy(cat.shard) /\ Truthy(cat.query) THEN "fetch_items"
    ELSE "return"

\* arguments of the _recurse calls made by _process_all:
\* self._recurse(cat, 1, None, cat.name)
RootArgs(cat) == [depth |-> 1, parent_id |-> NoneId, sheet_name |-> cat.name]

\* variant: the depth is not incremented
ChildArgsSameDepth(a, cat) ==
    [depth |-> a.depth, parent_id |-> cat.id, sheet_name |-> a.sheet_name]

\* variant: the child is grouped under its parent's name
ChildArgsParentName(a, cat) ==
    [depth |-> a.depth + 1, parent_id |-> cat.id, sheet_name |-> cat.name]

\* arguments of the _recurse calls made by _recurse with arguments a:
\* self._recurse(sub, depth + 1, cat.id, sheet_name)
ChildArgs(a, cat) ==
    [depth |-> a.depth + 1, parent_id |-> cat.id, sheet_name |-> a.sheet_name]

\* variant: a race, the first finished task ends the wait
GatherFirstDone(p, tasks) == \E c \in tasks : p[c] = "Done"

\* await asyncio.gather(*tasks) returns normally once every task is done
GatherDone(p, tasks) == \A c \in tasks : p[c] = "Done"

\* ... and raises as soon as one task has raised
GatherRaised(p, tasks) == \E c \in tasks : p[c] = "Raised"

\* variant: the value is not looked at
CanAcquireAlways(value) == TRUE

\* variant: acquire() wants a permit to spare
CanAcquireSpare(value) == value > 1

\* asyncio.Semaphore: a permit can be taken only while the value is positive
CanAcquire(value) == value > 0

\* the filter endpoint is only ever asked for categories that reach
\* _fetch_items; resp of the others is fixed to the empty answer
WillFetch(f, n) == recurse_branch(f[n], Childs(f, n)) = "fetch_items"

\* the state of the program when scrape awaits the main-menu GET
Start ==
    /\ mainpc = "fetch_main_menu"
    /\ pc = [n \in Nodes |-> "NotCreated"]
    /\ args = [n \in Nodes |-> NoArgs]
    /\ sem = SemaphoreCapacity
    /\ holding = {}
    /\ fetches = [n \in Nodes |-> 0]
    /\ calls = [x \in {} |-> <<>>]
    /\ sheets = [x \in {} |-> <<>>]
    /\ saved = FALSE
    /\ closed = FALSE
    /\ printed = [f \in {"_fetch_main_menu", "_fetch_items"} |-> 0]

Init ==
    /\ \E n \in 0..MaxNodes :
         \E par \in ParentArrays(n), look \in [1..n -> Lookups] :
            forest = [i \in 1..n |-> Category(i, look[i], par[i])]
    /\ resp \in [Nodes -> Bodies \cup {BodyNoData}]
    /\ \A n \in Nodes : resp[n] = BodyNoData <=> ~WillFetch(forest, n)
    /\ rootResp \in RootOutcomes
    /\ status = [i \in 0..Len(forest) |-> 200]
    /\ Start

\* One top-level category with two child leaves that are both fetched:
\* every answer and every status for each of them.
ResponseInit ==
    /\ forest = << Category(1, <<"s1", "q1">>, 0), Category(2, <<"s1", "q1">>, 1),
                   Category(3, <<"s1", "q1">>, 1) >>
    /\ resp \in [Nodes -> AllBodies]
    /\ resp[1] = BodyNoData
    /\ rootResp \in RootOutcomes
    /\ status \in [0..Len(forest) -> Statuses]
    /\ status[1] = 200
    /\ Start

(***************************************************************************)
(* scrape, _fetch_main_menu, _process_all                                  *)
(***************************************************************************)
\* The main-menu GET completes: _fetch_main_menu returns the catalog or,
\* through safe_api_call, None.  `if catalog:` then starts _process_all,
\* which creates one _recurse task per top-level category and awaits the
\* gather; otherwise scrape goes straight on to excel.save().
FetchMainMenuReturns ==
    /\ mainpc = "fetch_main_menu"
    /\ LET raised == rootResp # "ok"
           w == safe_api_call(raised)
           catalogTruthy == ~raised /\ Len(forest) > 0
       IN /\ printed' = [printed EXCEPT !["_fetch_main_menu"] = @ + w.printed]
          /\ IF w.propagates
             THEN /\ mainpc' = "raised"
                  /\ UNCHANGED <<pc, args, saved>>
             ELSE IF catalogTruthy
             THEN /\ mainpc' = "process_all"
                  /\ pc' = [n \in Nodes |->
                              IF n \in Childs(forest, 0) THEN "Pending" ELSE pc[n]]
                  /\ args' = [n \in Nodes |->
                              IF n \in Childs(forest, 0)
                              THEN RootArgs(forest[n])
                              ELSE args[n]]
                  /\ UNCHANGED saved
             ELSE /\ mainpc' = "aclose"
                  /\ saved' = TRUE
                  /\ UNCHANGED <<pc, args>>
    /\ UNCHANGED <<inputs, sem, holding, fetches, calls, sheets, closed>>

\* The gather of _process_all completes: with the first exception of a
\* top-level task (scrape then raises, and asyncio.run cancels what is left),
\* or when all top-level tasks are done (scrape then calls excel.save()).
ProcessAllReturns ==
    /\ mainpc = "process_all"
    /\ LET roots == Childs(forest, 0)
           anyRaised == GatherRaised(pc, roots)
           allDone == GatherDone(pc, roots)
       IN /\ (anyRaised \/ allDone)
          /\ mainpc' = IF anyRaised THEN "raised" ELSE "aclose"
          /\ saved' = IF anyRaised THEN saved ELSE TRUE
          /\ pc' = [n \in Nodes |->
                      IF anyRaised /\ pc[n] \in {"Pending", "Expanding", "WaitingSem", "Fetching"}
                      THEN "Cancelled" ELSE pc[n]]
          /\ sem' = IF anyRaised THEN sem + Cardinality(holding) ELSE sem
          /\ holding' = IF anyRaised THEN {} ELSE holding
    /\ UNCHANGED <<inputs, args, fetches, calls, sheets, closed, printed>>

\* await self.client.aclose()
Aclose ==
    /\ mainpc = "aclose"
    /\ mainpc' = "done"
    /\ closed' = TRUE
    /\ UNCHANGED <<inputs, pc, args, sem, holding, fetches, calls, sheets, saved, printed>>

(***************************************************************************)
(* _recurse and _fetch_items                                               *)
(***************************************************************************)
WriteCall(site, n, sheet_name, item_id, name, depth, parent) ==
    [site |-> site, cat |-> n, sheet_name |-> sheet_name, id |-> item_id,
     name |-> name, depth |-> depth, parent |-> parent]

\* variant: the call is put in front of the calls logged before
LoggedOnTop(cl, c) ==
    [x \in DOMAIN cl \cup {c.sheet_name} |->
        IF x # c.sheet_name THEN cl[x]
        ELSE IF x \in DOMAIN cl THEN <<c>> \o cl[x] ELSE <<c>>]

\* the log of write calls, extended by call c
Logged(cl, c) ==
    [x \in DOMAIN cl \cup {c.sheet_name} |->
        IF x # c.sheet_name THEN cl[x]
        ELSE IF x \in DOMAIN cl THEN Append(cl[x], c) ELSE <<c>>]

RECURSIVE LoggedAll(_, _)
LoggedAll(cl, cs) ==
    IF cs = <<>> THEN cl ELSE LoggedAll(Logged(cl, Head(cs)), Tail(cs))

\* `async with self.semaphore` entered and the GET issued
EnterFetch(n) ==
    /\ sem' = sem - 1
    /\ holding' = holding \cup {n}
    /\ fetches' = [fetches EXCEPT ![n] = @ + 1]

\* Whether a call of acquire() on a semaphore with a positive value returns
\* at once: it does when nobody is waiting; with waiters queued it depends on
\* the asyncio version (newer ones queue the caller behind them).
AcquireAtOnce ==
    IF ~CanAcquire(sem) THEN {FALSE}
    ELSE IF \E m \in Nodes : pc[m] = "WaitingSem" THEN {TRUE, FALSE}
    ELSE {TRUE}

\* The task of category n starts: it writes the category's own row, then
\* either creates the tasks of the childs and awaits their gather, or enters
\* _fetch_items (taking a permit and issuing the GET, or waiting for a
\* permit), or returns.
Recurse(n) ==
    /\ pc[n] = "Pending"
    /\ LET cat == forest[n]
           a == args[n]
           branch == recurse_branch(cat, Childs(forest, n))
       IN /\ calls' = Logged(calls, WriteCall("_recurse", n, a.sheet_name, cat.id,
                                              cat.name, a.depth, a.parent_id))
          /\ sheets' = ExcelWrite(sheets, a.sheet_name, cat.id, cat.name,
                                  a.depth, a.parent_id)
          /\ IF branch = "gather"
             THEN /\ pc' = [m \in Nodes |->
                              IF m = n THEN "Expanding"
                              ELSE IF m \in Childs(forest, n) THEN "Pending"
                              ELSE pc[m]]
                  /\ args' = [m \in Nodes |->
                              IF m \in Childs(forest, n)
                              THEN ChildArgs(a, cat)
                              ELSE args[m]]
                  /\ UNCHANGED <<sem, holding, fetches>>
             ELSE IF branch = "fetch_items"
             THEN /\ \E now \in AcquireAtOnce :
                        IF now
                        THEN /\ pc' = [pc EXCEPT ![n] = "Fetching"]
                             /\ EnterFetch(n)
                        ELSE /\ pc' = [pc EXCEPT ![n] = "WaitingSem"]
                             /\ UNCHANGED <<sem, holding, fetches>>
                  /\ UNCHANGED args
             ELSE /\ pc' = [pc EXCEPT ![n] = "Done"]
                  /\ UNCHANGED <<args, sem, holding, fetches>>
    /\ UNCHANGED <<inputs, mainpc, saved, closed, printed>>

\* A task waiting in `async with self.semaphore` gets a permit and issues
\* the GET.  Any waiting task may be the one that gets it.
AcquireSemaphore(n) ==
    /\ pc[n] = "WaitingSem"
    /\ CanAcquire(sem)
    /\ pc' = [pc EXCEPT ![n] = "Fetching"]
    /\ EnterFetch(n)
    /\ UNCHANGED <<inputs, mainpc, args, calls, sheets, saved, closed, printed>>

RECURSIVE FacetCallsTrueDepth(_, _, _)
\* variant: facets are written one level below their leaf
FacetCallsTrueDepth(out, n, sheet_name) ==
    IF out = <<>> THEN <<>>
    ELSE <<WriteCall("_fetch_items", n, sheet_name, Head(out).id, Head(out).name,
                     args[n].depth + 1, forest[n].id)>>
         \o FacetCallsTrueDepth(Tail(out), n, sheet_name)

RECURSIVE FacetCalls(_, _, _)
\* the excel.write calls of lines 135-141 for the (id, name) pairs of a loop
FacetCalls(out, n, sheet_name) ==
    IF out = <<>> THEN <<>>
    ELSE <<WriteCall("_fetch_items", n, sheet_name, Head(out).id, Head(out).name,
                     99, forest[n].id)>>
         \o FacetCalls(Tail(out), n, sheet_name)

RECURSIVE WriteAll(_, _)
WriteAll(sh, cs) ==
    IF cs = <<>> THEN sh
    ELSE WriteAll(ExcelWrite(sh, Head(cs).sheet_name, Head(cs).id, Head(cs).name,
                             Head(cs).depth, Head(cs).parent),
                  Tail(cs))

\* variant: the permit is given back only when the body ended normally
SemaphoreExitOnSuccess(value, raised) == IF raised THEN value ELSE value + 1

\* leaving `async with self.semaphore`: release() on every way out, with
\* or without an exception
SemaphoreExit(value, raised) == value + 1

\* variant: the loop awaits after every row it writes
LoopRunOneRow(cs) == IF cs = <<>> THEN <<>> ELSE <<Head(cs)>>

\* the write calls one uninterrupted run of the loop of lines 132-141 makes,
\* of those still to make: all of them, nothing is awaited inside the loop
LoopRun(cs) == cs

\* the write calls _fetch_items has made so far for category n
FacetRowsWritten(n) ==
    LET x == args[n].sheet_name
    IN IF x \notin DOMAIN calls THEN 0
       ELSE Cardinality({ i \in 1..Len(calls[x]) :
                            calls[x][i].site = "_fetch_items" /\ calls[x][i].cat = n })

\* The GET of category n completes (or raises): the loop over the response
\* writes its rows, the semaphore is released on the way out of the
\* `async with`, safe_api_call swallows an exception, and _recurse returns.
FetchItemsReturns(n) ==
    /\ pc[n] = "Fetching"
    /\ \E r \in { FetchItemsBody(resp[n]) } :
       \E all \in { FacetCalls(r.out, n, args[n].sheet_name) } :
       \E rest \in { SubSeq(all, FacetRowsWritten(n) + 1, Len(all)) } :
       \E cs \in { LoopRun(rest) } :
       \E w \in { safe_api_call(r.raised) } :
          /\ calls' = LoggedAll(calls, cs)
          /\ sheets' = WriteAll(sheets, cs)
          /\ IF Len(cs) = Len(rest)
             THEN /\ printed' = [printed EXCEPT !["_fetch_items"] = @ + w.printed]
                  /\ pc' = [pc EXCEPT ![n] = IF w.propagates THEN "Raised" ELSE "Done"]
                  /\ sem' = SemaphoreExit(sem, r.raised)
                  /\ holding' = holding \ {n}
             ELSE UNCHANGED <<printed, pc, sem, holding>>
    /\ UNCHANGED <<inputs, mainpc, args, fetches, saved, closed>>

\* The gather of the childs of n completes: with the first exception of a
\* child, or when every child task is done.
GatherReturns(n) ==
    /\ pc[n] = "Expanding"
    /\ LET anyRaised == GatherRaised(pc, Childs(forest, n))
           allDone == GatherDone(pc, Childs(forest, n))
       IN /\ (anyRaised \/ allDone)
          /\ pc' = [pc EXCEPT ![n] = IF anyRaised THEN "Raised" ELSE "Done"]
    /\ UNCHANGED <<inputs, mainpc, args, sem, holding, fetches, calls, sheets,
                   saved, closed, printed>>

Next ==
    \/ FetchMainMenuReturns
    \/ ProcessAllReturns
    \/ Aclose
    \/ \E n \in Nodes : Recurse(n)
    \/ \E n \in Nodes : AcquireSemaphore(n)
    \/ \E n \in Nodes : FetchItemsReturns(n)
    \/ \E n \in Nodes : GatherReturns(n)

Spec == Init /\ [][Next]_vars

\* the same program run on the inputs of ResponseInit
ResponseSpec == ResponseInit /\ [][Next]_vars

\* The event loop runs every task that is ready, and every request returns
\* or raises (the client is built with timeout=10): a step that can be taken
\* is taken in the end.
FairSpec == Spec /\ WF_vars(Next)

(***************************************************************************)
(* Vocabulary of the properties, defined on the forest alone.              *)
(***************************************************************************)
RECURSIVE AncestorCount(_)
AncestorCount(n) ==
    IF forest[n].parent = 0 THEN 0 ELSE 1 + AncestorCount(forest[n].parent)

RECURSIVE TopAncestor(_)
TopAncestor(n) == IF forest[n].parent = 0 THEN n ELSE TopAncestor(forest[n].parent)

RECURSIVE Descendants(_)
Descendants(n) ==
    Childs(forest, n) \cup UNION { Descendants(c) : c \in Childs(forest, n) }

\* the id of the immediate parent, None for a top-level category
ParentIdOf(n) ==
    IF forest[n].parent = 0 THEN NoneId ELSE forest[forest[n].parent].id

\* a leaf with shard and query both populated
LeafWithParams(n) ==
    /\ Childs(forest, n) = {}
    /\ forest[n].shard \notin {None, ""}
    /\ forest[n].query \notin {None, ""}

\* the filter fetch of leaf n fails: an exception is raised inside _fetch_items
FetchFails(n) == LeafWithParams(n) /\ FetchItemsBody(resp[n]).raised

\* the positions (sheet, index) of the log of write calls
Positions == UNION { { <<x, i>> : i \in 1..Len(calls[x]) } : x \in DOMAIN calls }
CallAt(p) == calls[p[1]][p[2]]

\* positions of the write calls of a call site for category n
CallsOf(site, n) ==
    { p \in Positions : CallAt(p).site = site /\ CallAt(p).cat = n }

\* position p comes before position q in the rows of one sheet
Before(p, q) == p[1] = q[1] /\ p[2] < q[2]

\* _process_all has been awaited to its end
WalkCompleted == rootResp = "ok" /\ Len(forest) > 0 /\ mainpc \in {"aclose", "done"}

RECURSIVE CategoryItems(_)
\* the items the response lists in its category groups, in order
CategoryItems(groups) ==
    IF groups = <<>> THEN <<>>
    ELSE (IF Head(groups).name = CATEGORY_GROUP /\ Head(groups).items.t = "list"
          THEN Head(groups).items.elems ELSE <<>>)
         \o CategoryItems(Tail(groups))

\* the facets a well-formed response returns
ReturnedFacets(body) ==
    IF body.data.t = "obj" /\ body.data.filters.t = "list"
    THEN CategoryItems(body.data.filters.elems) ELSE <<>>

(***************************************************************************)
(* C1  Completeness.  When _process_all has completed, every category of   *)
(* the forest has exactly one row written by _recurse, whose depth is 1 +  *)
(* the number of its ancestors and whose parent id is the id of its        *)
(* immediate parent (None for a top-level category).                       *)
(***************************************************************************)
C1_Completeness ==
    WalkCompleted =>
        \A n \in Nodes :
            /\ Cardinality(CallsOf("_recurse", n)) = 1
            /\ \A p \in CallsOf("_recurse", n) :
                  /\ CallAt(p).id = forest[n].id
                  /\ CallAt(p).name = forest[n].name
                  /\ CallAt(p).depth = 1 + AncestorCount(n)
                  /\ CallAt(p).parent = ParentIdOf(n)

\* a completed walk of a chain of three categories with a failed fetch at its end
C1_Witness ==
    /\ WalkCompleted
    /\ \E n \in Nodes : AncestorCount(n) = 2 /\ FetchFails(n)

(***************************************************************************)
(* C2  Failure isolation.  When the filter fetch of a leaf fails, no task  *)
(* and not scrape itself ends with an exception or is cancelled, and the   *)
(* completed walk has the row of every category (the failing leaf          *)
(* included) and every facet row of every leaf whose fetch succeeded.      *)
(***************************************************************************)
C2_FailureIsolation ==
    (\E l \in Nodes : FetchFails(l)) =>
        /\ mainpc # "raised"
        /\ \A n \in Nodes : pc[n] \notin {"Raised", "Cancelled"}
        /\ WalkCompleted =>
              \A n \in Nodes :
                 /\ Cardinality(CallsOf("_recurse", n)) = 1
                 /\ (LeafWithParams(n) /\ ~FetchFails(n)) =>
                       Cardinality(CallsOf("_fetch_items", n))
                          = Len(ReturnedFacets(resp[n]))

\* a completed walk in which one leaf's fetch failed in transport and a
\* sibling's fetch returned facets after it
C2_Witness ==
    /\ WalkCompleted
    /\ \E l, m \in Nodes :
          /\ forest[l].parent = forest[m].parent
          /\ LeafWithParams(l) /\ resp[l] = BodyTransportFail
          /\ LeafWithParams(m) /\ resp[m] = BodyFacets
          /\ \E p \in CallsOf("_recurse", l) :
                \E q \in CallsOf("_fetch_items", m) : Before(p, q)
          /\ printed["_fetch_items"] = 1

(***************************************************************************)
(* C3  A failed filter fetch produces zero facets.  If the filter fetch of *)
(* a leaf fails, no row written by _fetch_items for that leaf is present.  *)
(***************************************************************************)
C3_FailedFetchNoFacets ==
    \A l \in Nodes : FetchFails(l) => CallsOf("_fetch_items", l) = {}

(***************************************************************************)
(* C4  Concurrency bound.  In every state at most SemaphoreCapacity filter *)
(* fetches are in flight, every one of them is inside the `async with` of  *)
(* the semaphore, and every category inside it accounts for one permit     *)
(* taken from the semaphore.                                               *)
(***************************************************************************)
InFlight == { n \in Nodes : pc[n] = "Fetching" }

C4_ConcurrencyBound ==
    /\ Cardinality(InFlight) <= SemaphoreCapacity
    /\ InFlight \subseteq holding
    /\ sem >= 0
    /\ sem + Cardinality(holding) = SemaphoreCapacity

\* the semaphore is exhausted by fetches in flight and another leaf waits
C4_Witness ==
    /\ Cardinality(InFlight) = SemaphoreCapacity
    /\ \E n \in Nodes : pc[n] = "WaitingSem"

(***************************************************************************)
(* C5  Grouping stability.  Every write call, of a category row or of a    *)
(* facet row, names as its sheet the name of the top-level ancestor of the *)
(* category it belongs to.                                                 *)
(***************************************************************************)
C5_GroupingStability ==
    \A p \in Positions :
        /\ CallAt(p).sheet_name = forest[TopAncestor(CallAt(p).cat)].name
        /\ CallAt(p).sheet_name = p[1]

\* a facet row of a leaf below the top level whose own name and whose
\* parent's name both differ from the sheet name
C5_Witness ==
    \E p \in Positions :
        /\ CallAt(p).site = "_fetch_items"
        /\ AncestorCount(CallAt(p).cat) = 2
        /\ forest[forest[CallAt(p).cat].parent].name # CallAt(p).sheet_name

(***************************************************************************)
(* C6  Facet flattening.  For a leaf whose filter fetch succeeded, every   *)
(* facet of the category groups of the response has exactly one row, with  *)
(* depth 99, the leaf's id as parent and the sheet of the leaf's own row.  *)
(***************************************************************************)
C6_FacetFlattening ==
    \A l \in Nodes :
        (LeafWithParams(l) /\ ~FetchFails(l) /\ pc[l] = "Done") =>
            /\ Cardinality(CallsOf("_fetch_items", l)) = Len(ReturnedFacets(resp[l]))
            /\ \A p \in CallsOf("_fetch_items", l) :
                  /\ CallAt(p).depth = 99
                  /\ CallAt(p).parent = forest[l].id
                  /\ \A q \in CallsOf("_recurse", l) :
                        CallAt(p).sheet_name = CallAt(q).sheet_name

\* a leaf two levels below the top whose fetch returned two facets
C6_Witness ==
    \E l \in Nodes :
        /\ AncestorCount(l) = 2
        /\ pc[l] = "Done"
        /\ Cardinality(CallsOf("_fetch_items", l)) = 2

(***************************************************************************)
(* C7  Fetch trigger.  The filter endpoint is asked for a category only if *)
(* the category has no childs and has shard and query both populated, at   *)
(* most once, and exactly once by the time the walk has completed.         *)
(***************************************************************************)
C7_FetchTrigger ==
    \A n \in Nodes :
        /\ fetches[n] <= 1
        /\ fetches[n] = 1 => LeafWithParams(n)
        /\ (WalkCompleted /\ LeafWithParams(n)) => fetches[n] = 1

\* a completed walk over an internal category that carries shard and query,
\* with one child lacking the query and one child that was fetched
C7_Witness ==
    /\ WalkCompleted
    /\ \E n, a, b \in Nodes :
          /\ forest[a].parent = n /\ forest[b].parent = n
          /\ Truthy(forest[n].shard) /\ Truthy(forest[n].query) /\ fetches[n] = 0
          /\ Truthy(forest[a].shard) /\ forest[a].query = None /\ fetches[a] = 0
          /\ fetches[b] = 1

(***************************************************************************)
(* C8  Root-fetch failure.  If the main-menu request fails, no row is ever *)
(* written, no task is created and no filter fetch is issued; once the     *)
(* request has failed exactly one error line has been printed and the      *)
(* workbook has been saved; scrape does not raise, it goes on to close the *)
(* client and ends.                                                        *)
(***************************************************************************)
C8_RootFetchFailure ==
    rootResp # "ok" =>
        /\ Positions = {}
        /\ DOMAIN sheets = {}
        /\ \A n \in Nodes : fetches[n] = 0 /\ pc[n] = "NotCreated"
        /\ mainpc \in {"fetch_main_menu", "aclose", "done"}
        /\ mainpc # "fetch_main_menu" =>
              /\ saved
              /\ printed["_fetch_main_menu"] = 1
              /\ printed["_fetch_items"] = 0
        /\ mainpc = "done" <=> closed
        /\ mainpc # "done" => ENABLED Next

\* scrape has ended after a main-menu response with an invalid item in
\* which a leaf with shard and query was listed
C8_Witness ==
    /\ rootResp = "invalid_item"
    /\ \E n \in Nodes : LeafWithParams(n)
    /\ mainpc = "done" /\ saved /\ closed

(***************************************************************************)
(* C9  Interleaving independence.  When scrape has saved the workbook, the *)
(* multiset of write calls made is the one a sequential depth-first walk   *)
(* of the forest makes with the same responses, whatever order the tasks   *)
(* ran in and whatever order they got the semaphore in.                    *)
(***************************************************************************)
RECURSIVE InOrder(_)
\* the members of a set of categories, in index order
InOrder(S) ==
    IF S = {} THEN <<>>
    ELSE LET m == CHOOSE x \in S : \A y \in S : x <= y
         IN <<m>> \o InOrder(S \ {m})

RECURSIVE SequentialFacets(_, _)
SequentialFacets(out, n) ==
    IF out = <<>> THEN <<>>
    ELSE <<WriteCall("_fetch_items", n, forest[TopAncestor(n)].name,
                     Head(out).id, Head(out).name, 99, forest[n].id)>>
         \o SequentialFacets(Tail(out), n)

RECURSIVE SequentialWalk(_)
\* the write calls of a walk that finishes every category, with its
\* descendants and facets, before going on to the next
SequentialWalk(todo) ==
    IF todo = <<>> THEN <<>>
    ELSE LET n == Head(todo)
         IN <<WriteCall("_recurse", n, forest[TopAncestor(n)].name, forest[n].id,
                        forest[n].name, 1 + AncestorCount(n), ParentIdOf(n))>>
            \o SequentialWalk(InOrder(Childs(forest, n)))
            \o (IF LeafWithParams(n)
                THEN SequentialFacets(FetchItemsBody(resp[n]).out, n) ELSE <<>>)
            \o SequentialWalk(Tail(todo))

Expected ==
    IF rootResp = "ok" THEN SequentialWalk(InOrder(Childs(forest, 0))) ELSE <<>>

Count(s, x) == Cardinality({ i \in 1..Len(s) : s[i] = x })

\* the logged write calls are, as a multiset, the members of sequence t
LoggedMultisetIs(t) ==
    /\ Cardinality(Positions) = Len(t)
    /\ \A i \in 1..Len(t) :
          Cardinality({ p \in Positions : CallAt(p) = t[i] }) = Count(t, t[i])

C9_InterleavingIndependence ==
    saved => LoggedMultisetIs(Expected)

\* a saved walk whose rows came in another order than the sequential one:
\* the facets of an earlier leaf were written after those of a later one
C9_Witness ==
    /\ saved
    /\ \E l, m \in Nodes :
          /\ l < m
          /\ \E p \in CallsOf("_fetch_items", l) :
                \E q \in CallsOf("_fetch_items", m) : Before(q, p)

(***************************************************************************)
(* C10  Join-all.  A _recurse task is done only when the tasks of all its  *)
(* descendants are done and none of them is still inside a filter fetch;   *)
(* the workbook is saved only when every task of the walk is done; and     *)
(* once the workbook is saved no further row is written.                   *)
(***************************************************************************)
JoinAll ==
    /\ \A n \in Nodes :
          pc[n] = "Done" =>
             \A d \in Descendants(n) : pc[d] = "Done" /\ d \notin holding
    /\ saved =>
          /\ holding = {}
          /\ \A n \in Nodes :
                pc[n] = IF rootResp = "ok" THEN "Done" ELSE "NotCreated"

C10_JoinAll ==
    /\ []JoinAll
    /\ [][saved => (saved' /\ calls' = calls /\ sheets' = sheets)]_vars

\* the workbook is saved after a walk in which a top-level category waited
\* for a grandchild's filter fetch to write its facets
C10_Witness ==
    /\ saved
    /\ \E n, d \in Nodes :
          /\ forest[n].parent = 0
          /\ AncestorCount(d) = 2 /\ TopAncestor(d) = n
          /\ CallsOf("_fetch_items", d) # {}

(***************************************************************************)
(* C11  Non-2xx is a failure.  A response with a status outside 200..299   *)
(* is treated as a failed fetch, whatever its body: from the main-menu     *)
(* endpoint it leaves the walk without any task or row and one error line  *)
(* printed; from the filter endpoint it leaves the leaf without facet rows *)
(* and an error line printed.                                              *)
(***************************************************************************)
Non2xx(i) == status[i] \notin 200..299

C11_Non2xxIsFailure ==
    /\ (Non2xx(0) /\ mainpc # "fetch_main_menu") =>
          /\ Positions = {}
          /\ \A n \in Nodes : pc[n] = "NotCreated"
          /\ printed["_fetch_main_menu"] = 1
    /\ \A n \in Nodes :
          (Non2xx(n) /\ fetches[n] = 1 /\ pc[n] = "Done") =>
             /\ CallsOf("_fetch_items", n) = {}
             /\ printed["_fetch_items"] >= 1

(***************************************************************************)
(* C12  Limiter release.  The free permits are always between 0 and the    *)
(* capacity and are exactly the capacity less the fetches in flight; a     *)
(* task that is done holds no permit, whichever way its _fetch_items       *)
(* ended; and when the workbook is saved all permits are free.             *)
(***************************************************************************)
C12_LimiterRelease ==
    /\ sem \in 0..SemaphoreCapacity
    /\ sem = SemaphoreCapacity - Cardinality(InFlight)
    /\ \A n \in Nodes : pc[n] = "Done" => n \notin holding
    /\ saved => sem = SemaphoreCapacity

\* a completed walk with a fetch that failed in transport, one that raised
\* while its response was processed and one that succeeded: all permits free
C12_Witness ==
    /\ WalkCompleted
    /\ sem = SemaphoreCapacity
    /\ \E a, b, c \in Nodes :
          /\ fetches[a] = 1 /\ resp[a] = BodyTransportFail
          /\ fetches[b] = 1 /\ resp[b] = BodyBadItem
          /\ fetches[c] = 1 /\ resp[c] = BodyFacets

(***************************************************************************)
(* C13  Absent or malformed group data.  When the response for a leaf has  *)
(* no data, no filters list (absent or null) or a category group whose     *)
(* items is absent or not a list, no facet row is written for the leaf     *)
(* and no error line is printed for it: the error lines of _fetch_items    *)
(* are at most one for each finished fetch of another kind of response.    *)
(***************************************************************************)
NoGroupData(body) ==
    /\ ~body.raises
    /\ \/ body.data.t = "absent"
       \/ /\ body.data.t = "obj"
          /\ \/ body.data.filters.t \in {"absent", "null"}
             \/ /\ body.data.filters.t = "list"
                /\ \E i \in DOMAIN body.data.filters.elems :
                      body.data.filters.elems[i].name = CATEGORY_GROUP
                /\ \A i \in DOMAIN body.data.filters.elems :
                      body.data.filters.elems[i].name = CATEGORY_GROUP
                         => body.data.filters.elems[i].items.t # "list"

FetchDone(n) == fetches[n] = 1 /\ pc[n] = "Done"

C13_NoGroupDataNoFailure ==
    /\ \A n \in Nodes :
          (FetchDone(n) /\ NoGroupData(resp[n])) => CallsOf("_fetch_items", n) = {}
    /\ printed["_fetch_items"]
          <= Cardinality({ n \in Nodes : FetchDone(n) /\ ~NoGroupData(resp[n]) })

(***************************************************************************)
(* C14  Category-group selection.  Every facet row of a leaf carries the   *)
(* id of an item of a group of its response whose name is the category     *)
(* label; no facet row carries the id of an item of a group with another   *)
(* name (or none), wherever the group stands in the response; and a fetch  *)
(* that ended without an exception has written one row for each item of    *)
(* the category groups.                                                    *)
(***************************************************************************)
GroupsOf(body) ==
    IF ~body.raises /\ body.data.t = "obj" /\ body.data.filters.t = "list"
    THEN body.data.filters.elems ELSE <<>>

\* the ids written for the items of the groups of a response chosen by their
\* label (0 for an item without id)
ItemIds(body, labelled) ==
    UNION { { IF g.items.elems[j].id = NoneId THEN 0 ELSE g.items.elems[j].id :
                 j \in { k \in DOMAIN g.items.elems : g.items.elems[k].t = "obj" } } :
            g \in { GroupsOf(body)[i] :
                      i \in { k \in DOMAIN GroupsOf(body) :
                                /\ GroupsOf(body)[k].items.t = "list"
                                /\ (GroupsOf(body)[k].name = CATEGORY_GROUP) = labelled } } }

C14_CategoryGroupSelection ==
    \A n \in Nodes :
       /\ \A p \in CallsOf("_fetch_items", n) :
             /\ CallAt(p).id \in ItemIds(resp[n], TRUE)
             /\ CallAt(p).id \notin ItemIds(resp[n], FALSE)
       /\ (FetchDone(n) /\ ~FetchItemsBody(resp[n]).raised) =>
             Cardinality(CallsOf("_fetch_items", n)) = Len(ReturnedFacets(resp[n]))

\* one leaf answered with the category group first and last among other
\* groups, another with the category group last: two facet rows each
C14_Witness ==
    \E n, m \in Nodes :
       /\ FetchDone(n) /\ resp[n] = BodyCategoryFirst
       /\ { CallAt(p).id : p \in CallsOf("_fetch_items", n) } = {12, 13}
       /\ FetchDone(m) /\ resp[m] = BodyFacets
       /\ { CallAt(p).id : p \in CallsOf("_fetch_items", m) } = {10, 0}

(***************************************************************************)
(* C15  The semaphore blocks only its caller.  Whatever the semaphore's    *)
(* value, a task that has not started and whose category is not a leaf     *)
(* with shard and query can write its row and go on without waiting, and   *)
(* a gather whose child tasks are all done can return; only tasks of       *)
(* leaves with shard and query ever wait for the semaphore; a waiting task *)
(* can take a permit whenever one is free, and when none is free a fetch   *)
(* is in flight and each fetch in flight can end and release its permit.   *)
(***************************************************************************)
C15_LimiterBlocksOnlyCaller ==
    \A n \in Nodes :
       /\ (pc[n] = "Pending" /\ ~LeafWithParams(n)) =>
             ENABLED (Recurse(n) /\ pc'[n] \in {"Expanding", "Done"})
       /\ (pc[n] = "Expanding" /\ \A c \in Childs(forest, n) : pc[c] = "Done") =>
             ENABLED GatherReturns(n)
       /\ pc[n] = "WaitingSem" =>
             /\ LeafWithParams(n)
             /\ sem > 0 => ENABLED AcquireSemaphore(n)
             /\ sem = 0 =>
                   /\ InFlight # {}
                   /\ \A m \in InFlight :
                         ENABLED (FetchItemsReturns(m) /\ sem' > 0)

\* every permit is taken by a fetch in flight, a task waits for one, and a
\* task that needs none has written its row after the waiting task's row
\* and is done
C15_Witness ==
    /\ Cardinality(InFlight) = SemaphoreCapacity
    /\ sem = 0
    /\ \E w, n \in Nodes :
          /\ pc[w] = "WaitingSem"
          /\ ~LeafWithParams(n) /\ pc[n] = "Done"
          /\ \E p \in CallsOf("_recurse", w) :
                \E q \in CallsOf("_recurse", n) : Before(p, q)

(***************************************************************************)
(* C16  Per-node ordering.  A task that has left Pending has written its   *)
(* category's own row; that row stands before every row of the category's *)
(* descendants and before every facet row of the category; and no task     *)
(* ever steps back: not created, pending, expanding or waiting for the     *)
(* semaphore, fetching, ended.                                             *)
(***************************************************************************)
Rank(state) ==
    CASE state = "NotCreated" -> 0
      [] state = "Pending" -> 1
      [] state \in {"Expanding", "WaitingSem"} -> 2
      [] state = "Fetching" -> 3
      [] OTHER -> 4

OwnRowFirst ==
    \A n \in Nodes :
       /\ Rank(pc[n]) >= 2 => Cardinality(CallsOf("_recurse", n)) = 1
       /\ \A q \in CallsOf("_fetch_items", n)
                   \cup UNION { CallsOf("_recurse", d) \cup CallsOf("_fetch_items", d) :
                                  d \in Descendants(n) } :
             \E p \in CallsOf("_recurse", n) : Before(p, q)

C16_PerNodeOrdering ==
    /\ []OwnRowFirst
    /\ [][\A n \in Nodes : Rank(pc'[n]) >= Rank(pc[n])]_vars

\* a chain of three categories, all done, with facet rows of the last one
C16_Witness ==
    \E n \in Nodes :
       /\ AncestorCount(n) = 2
       /\ CallsOf("_fetch_items", n) # {}
       /\ pc[TopAncestor(n)] = "Done"

(***************************************************************************)
(* C17  Termination without deadlock.  A task holds a permit of the        *)
(* semaphore only while its GET is in flight, never while it waits for the *)
(* semaphore or for child tasks; and when every step that can be taken is  *)
(* taken in the end, scrape returns with the workbook saved and the client *)
(* closed, for every forest and also with more leaves to fetch than        *)
(* permits.                                                                *)
(***************************************************************************)
C17_Termination ==
    /\ [](\A n \in holding : pc[n] = "Fetching")
    /\ <>[](mainpc = "done" /\ saved /\ closed)

\* scrape has returned after a walk that fetched for more leaves than the
\* semaphore has permits
C17_Witness ==
    /\ mainpc = "done" /\ saved /\ closed
    /\ Cardinality({ n \in Nodes : fetches[n] = 1 }) > SemaphoreCapacity

(***************************************************************************)
(* C18  No preemption of code that does not await.  A task whose GET is    *)
(* still awaited has written no facet row, so the loop over the response   *)
(* is never left half done; and the facet rows of a leaf stand next to     *)
(* each other in its sheet, with no row of another task between them.      *)
(***************************************************************************)
C18_NoPreemption ==
    \A n \in Nodes :
       /\ pc[n] \in {"WaitingSem", "Fetching"} => CallsOf("_fetch_items", n) = {}
       /\ \A p, q \in CallsOf("_fetch_items", n) :
             \A r \in Positions :
                (Before(p, r) /\ Before(r, q)) => r \in CallsOf("_fetch_items", n)

\* two leaves of one sheet: the second wrote its own row while the first
\* was waiting for its response, then the first wrote its two facet rows,
\* then the second wrote its own
C18_Witness ==
    \E n, m \in Nodes :
       /\ n # m
       /\ Cardinality(CallsOf("_fetch_items", n)) = 2
       /\ \E o \in CallsOf("_recurse", n), r \in CallsOf("_recurse", m) :
             /\ Before(o, r)
             /\ \A p \in CallsOf("_fetch_items", n) : Before(r, p)
       /\ \E q \in CallsOf("_fetch_items", m) :
             \A p \in CallsOf("_fetch_items", n) : Before(p, q)

(***************************************************************************)
(* C19  Sink grouping.  Whatever the order in which the tasks call write,  *)
(* there is one sheet for each sheet name write was called with and no     *)
(* other; the first row of a sheet is the header and it is the only row    *)
(* besides the data rows, one for each call made with the sheet's name,    *)
(* in the order of the calls.                                              *)
(***************************************************************************)
C19_SinkGrouping ==
    /\ DOMAIN sheets = DOMAIN calls
    /\ \A x \in DOMAIN sheets :
          /\ Len(sheets[x]) = 1 + Len(calls[x])
          /\ sheets[x][1] = HeaderRow
          /\ \A i \in 1..Len(calls[x]) :
                /\ calls[x][i].sheet_name = x
                /\ sheets[x][i + 1].id = calls[x][i].id
                /\ sheets[x][i + 1].name = calls[x][i].name
                /\ sheets[x][i + 1].depth = calls[x][i].depth

\* two sheets, one of them with the rows of two top-level categories of the
\* same name and with facet rows
C19_Witness ==
    /\ Cardinality(DOMAIN sheets) = 2
    /\ \E x \in DOMAIN sheets :
          /\ \E i, j \in 1..Len(calls[x]) :
                TopAncestor(calls[x][i].cat) # TopAncestor(calls[x][j].cat)
          /\ \E i \in 1..Len(calls[x]) : calls[x][i].site = "_fetch_items"

====
